---- MODULE Spec2Model ----
(***************************************************************************)
(* Model of analyze.py: the sync-percentage calculator, the direct-indexer *)
(* probe, the consolidated-progress probe and the per-deployment summary   *)
(* fold.                                                                   *)
(*                                                                         *)
(* Python strings are sequences of one-character strings, so that          *)
(* formatting (f"{n}%", f"{x:.1f}%", ', '.join) and parsing (int, float)   *)
(* are computed and not assumed.  A call that can raise returns a record   *)
(* [raised, exc, value].                                                   *)
(***************************************************************************)
EXTENDS Integers, Sequences, FiniteSets

VARIABLES calc, probe, fleet, subgraphs, net, sg_state, task

vars == <<calc, probe, fleet, subgraphs, net, sg_state, task>>

(***************************************************************************)
(* Bounds of the model.                                                    *)
(***************************************************************************)
MaxBlock == 4

MaxStatuses == 1

MaxChains == 1

MaxEntries == 2

None == "None"

Ok(v) == [raised |-> FALSE, exc |-> None, value |-> v]

Raise(e) == [raised |-> TRUE, exc |-> e, value |-> None]

(***************************************************************************)
(* Python built-ins used by the code.                                      *)
(***************************************************************************)
Digits == <<"0", "1", "2", "3", "4", "5", "6", "7", "8", "9">>

IsDigit(c) == \E i \in 1..10 : Digits[i] = c

DigitValue(c) == (CHOOSE i \in 1..10 : Digits[i] = c) - 1

RECURSIVE NatToStr(_)
NatToStr(n) ==
    IF n < 10 THEN <<Digits[n + 1]>>
    ELSE NatToStr(n \div 10) \o <<Digits[(n % 10) + 1]>>

\* str(n) / f"{n}" of a Python int
PyStr(n) == IF n < 0 THEN <<"-">> \o NatToStr(-n) ELSE NatToStr(n)

RECURSIVE DigitsToNat(_)
DigitsToNat(s) ==
    IF s = <<>> THEN 0
    ELSE DigitsToNat(SubSeq(s, 1, Len(s) - 1)) * 10 + DigitValue(s[Len(s)])

AllDigits(s) == Len(s) > 0 /\ \A i \in 1..Len(s) : IsDigit(s[i])

\* int(s) of a Python str: an optional sign and decimal digits, else ValueError
PyInt(s) ==
    IF AllDigits(s) THEN Ok(DigitsToNat(s))
    ELSE IF Len(s) > 1 /\ s[1] = "-" /\ AllDigits(Tail(s)) THEN Ok(-DigitsToNat(Tail(s)))
    ELSE IF Len(s) > 1 /\ s[1] = "+" /\ AllDigits(Tail(s)) THEN Ok(DigitsToNat(Tail(s)))
    ELSE Raise("ValueError")

\* a // b of Python ints: floor division, ZeroDivisionError when b = 0
PyFloorDiv(a, b) ==
    IF b = 0 THEN Raise("ZeroDivisionError")
    ELSE IF b > 0 THEN Ok(a \div b)
    ELSE Ok((-a) \div (-b))

PyMin(a, b) == IF a <= b THEN a ELSE b

NA == <<"N", "/", "A">>

Percent == <<"%">>

(***************************************************************************)
(* get_sync_percentage                                                     *)
(***************************************************************************)
get_sync_percentage_NoTotalCheck(start_block, latest_block, chain_head_block) ==
    IF latest_block = 0 THEN Ok(NA)
    ELSE LET blocks_processed == latest_block - start_block
             total_blocks == chain_head_block - start_block
             synced == PyFloorDiv(blocks_processed * 100, total_blocks)
         IN  IF synced.raised THEN synced
             ELSE Ok(PyStr(PyMin(synced.value, 100)) \o Percent)

\* the share of blocks still to process instead of the share processed
get_sync_percentage_Remaining(start_block, latest_block, chain_head_block) ==
    IF latest_block = 0 THEN Ok(NA)
    ELSE LET blocks_remaining == chain_head_block - latest_block
             total_blocks == chain_head_block - start_block
         IN  IF total_blocks <= 0 THEN Ok(NA)
             ELSE LET synced == PyFloorDiv(blocks_remaining * 100, total_blocks)
                  IN  IF synced.raised THEN synced
                      ELSE Ok(PyStr(PyMin(synced.value, 100)) \o Percent)

get_sync_percentage(start_block, latest_block, chain_head_block) ==
    IF latest_block = 0 THEN Ok(NA)
    ELSE LET blocks_processed == latest_block - start_block
             total_blocks == chain_head_block - start_block
         IN  IF total_blocks <= 0 THEN Ok(NA)
             ELSE LET synced == PyFloorDiv(blocks_processed * 100, total_blocks)
                  IN  IF synced.raised THEN synced
                      ELSE Ok(PyStr(PyMin(synced.value, 100)) \o Percent)

(***************************************************************************)
(* Wire data of the direct-indexer status endpoint.  A block field is      *)
(* {"number": "<string>"}, or is absent/null.                              *)
(***************************************************************************)
Blk(s) == [present |-> TRUE, number |-> s]

NoBlk == [present |-> FALSE, number |-> <<>>]

NotANumber == <<"a", "b", "c">>

\* Health(value): the enum has exactly these three values, else ValueError
Health(v) ==
    IF v \in {"healthy", "unhealthy", "failed"} THEN Ok(v) ELSE Raise("ValueError")

FirstRaised(parsed) ==
    parsed[CHOOSE i \in 1..Len(parsed) :
              parsed[i].raised /\ \A j \in 1..(i - 1) : ~parsed[j].raised]

Values(parsed) == [i \in 1..Len(parsed) |-> parsed[i].value]

(***************************************************************************)
(* get_subgraph_status: one POST to <indexer>/status, parsed into          *)
(* SubgraphData; every failure inside the try block returns None.          *)
(***************************************************************************)
ParseChain(chain_data) ==
    IF ~chain_data.chainHeadBlock.present THEN Raise("KeyError")
    ELSE IF ~chain_data.earliestBlock.present THEN Raise("KeyError")
    ELSE Ok([network |-> chain_data.network,
             chain_head_block |-> chain_data.chainHeadBlock.number,
             earliest_block |-> chain_data.earliestBlock.number,
             latest_block |-> chain_data.latestBlock])

ParseIndexingStatus(status_data) ==
    LET chains == [i \in 1..Len(status_data.chains) |-> ParseChain(status_data.chains[i])]
        health == Health(IF status_data.health = None THEN "failed" ELSE status_data.health)
    IN  IF \E i \in 1..Len(chains) : chains[i].raised THEN FirstRaised(chains)
        ELSE IF health.raised THEN health
        ELSE Ok([health |-> health.value,
                 synced |-> status_data.synced,
                 fatal_error |-> status_data.fatalError,
                 chains |-> Values(chains)])

NoSubgraphData == [is_none |-> TRUE, indexing_statuses |-> <<>>]

get_subgraph_status(response) ==
    IF response.kind # "http" THEN NoSubgraphData
    ELSE IF response.status_code # 200 THEN NoSubgraphData
    ELSE IF ~response.is_json THEN NoSubgraphData
    ELSE IF response.body.has_errors THEN NoSubgraphData
    ELSE IF ~response.body.has_data THEN NoSubgraphData
    ELSE IF response.body.subgraphFeatures = "null" THEN NoSubgraphData
    ELSE LET statuses == [i \in 1..Len(response.body.indexingStatuses) |->
                             ParseIndexingStatus(response.body.indexingStatuses[i])]
         IN  IF \E i \in 1..Len(statuses) : statuses[i].raised THEN NoSubgraphData
             ELSE [is_none |-> FALSE, indexing_statuses |-> Values(statuses)]

(***************************************************************************)
(* check_indexer_status                                                    *)
(***************************************************************************)
CleanUrl(indexer_url) ==
    [scheme |-> IF indexer_url.scheme = "" THEN "https://" ELSE indexer_url.scheme,
     host |-> indexer_url.host,
     trailing_slashes |-> 0]

ErrorResult(indexer_url, cause) ==
    [indexer_url |-> indexer_url, status |-> "error", error |-> cause,
     synced |-> FALSE, health |-> None, has_blocks |-> FALSE,
     latest_block |-> 0, chain_head_block |-> 0, earliest_block |-> 0,
     blocks_behind |-> 0, fatal_error |-> None]

ExceptionText(exc) ==
    IF exc = "ValueError" THEN "invalid literal for int() with base 10"
    ELSE exc

check_indexer_status_TryBody(response, indexer_url) ==
    LET url == CleanUrl(indexer_url)
        subgraph_data == get_subgraph_status(response)
    IN  IF ~subgraph_data.is_none /\ subgraph_data.indexing_statuses # <<>>
        THEN LET status == subgraph_data.indexing_statuses[1]
                 base == [indexer_url |-> url, status |-> "success", error |-> "",
                          synced |-> status.synced, health |-> status.health,
                          has_blocks |-> FALSE,
                          latest_block |-> 0, chain_head_block |-> 0, earliest_block |-> 0,
                          blocks_behind |-> 0, fatal_error |-> status.fatal_error]
             IN  IF status.chains # <<>>
                 THEN LET chain == status.chains[1]
                          latest_block == IF chain.latest_block.present
                                          THEN PyInt(chain.latest_block.number) ELSE Ok(0)
                          chain_head_block == PyInt(chain.chain_head_block)
                          earliest_block == PyInt(chain.earliest_block)
                      IN  IF latest_block.raised THEN latest_block
                          ELSE IF chain_head_block.raised THEN chain_head_block
                          ELSE IF earliest_block.raised THEN earliest_block
                          ELSE Ok([base EXCEPT
                                    !.has_blocks = TRUE,
                                    !.latest_block = latest_block.value,
                                    !.chain_head_block = chain_head_block.value,
                                    !.earliest_block = earliest_block.value,
                                    !.blocks_behind = chain_head_block.value - latest_block.value])
                 ELSE Ok(base)
        ELSE Ok(ErrorResult(url, "No status data available"))

check_indexer_status_NoExcept(response, indexer_url) ==
    check_indexer_status_TryBody(response, indexer_url)

check_indexer_status(response, indexer_url) ==
    LET body == check_indexer_status_TryBody(response, indexer_url)
    IN  IF body.raised THEN Ok(ErrorResult(CleanUrl(indexer_url), ExceptionText(body.exc)))
        ELSE body

(***************************************************************************)
(* get_manifest_as_string and get_start_block.  A manifest is modelled by  *)
(* the list re.findall(r'startBlock:\s*(\d+)') finds in its text.          *)
(***************************************************************************)
NoManifest == [is_none |-> TRUE, start_blocks |-> <<>>]

get_manifest_as_string(response) ==
    IF response.kind # "http" THEN NoManifest
    ELSE IF response.status_code = 200
         THEN [is_none |-> FALSE, start_blocks |-> response.start_blocks]
         ELSE NoManifest

SeqMin(xs) == CHOOSE m \in {xs[i] : i \in 1..Len(xs)} : \A i \in 1..Len(xs) : m <= xs[i]

SeqMax(xs) == CHOOSE m \in {xs[i] : i \in 1..Len(xs)} : \A i \in 1..Len(xs) : m >= xs[i]

get_start_block(manifest) ==
    LET matches == manifest.start_blocks
    IN  IF matches # <<>>
        THEN SeqMin([i \in 1..Len(matches) |-> PyInt(matches[i]).value])
        ELSE 0

(***************************************************************************)
(* get_subgraph_progress and get_query_volume_30d: one GET each; any       *)
(* exception, a non-200 status or missing fields give None.                *)
(***************************************************************************)
NoProgress == [is_none |-> TRUE, progress |-> <<>>]

get_subgraph_progress_Body(response) ==
    IF response.kind # "http" THEN Raise(response.kind)
    ELSE IF response.status_code = 200
         THEN IF ~response.is_json THEN Raise("JSONDecodeError")
              ELSE IF response.body.has_progress /\ response.body.progress # <<>>
                   THEN Ok([is_none |-> FALSE, progress |-> response.body.progress])
                   ELSE Ok(NoProgress)
         ELSE Ok(NoProgress)

get_subgraph_progress(response) ==
    LET body == get_subgraph_progress_Body(response)
    IN  IF body.raised THEN Ok(NoProgress) ELSE body

NoQueryVolume == [is_none |-> TRUE, query_volume_30d |-> 0, query_volume_days |-> 0]

get_query_volume_30d(response) ==
    IF response.kind # "http" THEN Ok(NoQueryVolume)
    ELSE IF response.status_code = 200 /\ response.is_json
            /\ response.body.has_count /\ response.body.has_numDays
         THEN Ok([is_none |-> FALSE,
                  query_volume_30d |-> response.body.count,
                  query_volume_days |-> response.body.numDays])
         ELSE Ok(NoQueryVolume)

(***************************************************************************)
(* parse_progress_data: one status and one percentage per entry of the     *)
(* 'progress' list; int() of a block field or a missing block field raises *)
(* out of the function.                                                    *)
(***************************************************************************)
BlockNumber(b) == IF b.present THEN PyInt(b.number) ELSE Raise("KeyError")

ParseProgressEntry(indexer_data, start_block) ==
    LET user_address == indexer_data.user
        health == IF indexer_data.health = None THEN "unknown" ELSE indexer_data.health
        synced == indexer_data.synced
        chains == indexer_data.chains
        base == [indexer_id |-> user_address, status |-> "success",
                 synced |-> synced, health |-> health, has_blocks |-> FALSE,
                 latest_block |-> 0, chain_head_block |-> 0, earliest_block |-> 0,
                 blocks_behind |-> 0]
    IN  IF chains # <<>>
        THEN LET chain == chains[1]
                 chain_head_block == BlockNumber(chain.chainHeadBlock)
                 latest_block == BlockNumber(chain.latestBlock)
                 earliest_block == BlockNumber(chain.earliestBlock)
             IN  IF chain_head_block.raised THEN chain_head_block
                 ELSE IF latest_block.raised THEN latest_block
                 ELSE IF earliest_block.raised THEN earliest_block
                 ELSE LET sync_pct == get_sync_percentage(start_block, latest_block.value,
                                                          chain_head_block.value)
                      IN  IF sync_pct.raised THEN sync_pct
                          ELSE Ok([status |-> [base EXCEPT
                                      !.has_blocks = TRUE,
                                      !.latest_block = latest_block.value,
                                      !.chain_head_block = chain_head_block.value,
                                      !.earliest_block = earliest_block.value,
                                      !.blocks_behind =
                                          chain_head_block.value - latest_block.value],
                                   sync_pct |-> sync_pct.value])
        ELSE Ok([status |-> base, sync_pct |-> NA])

HasChainData(indexer_data) == indexer_data.chains # <<>>

parse_progress_data_SkipNoChain(progress_data, start_block) ==
    IF progress_data.is_none THEN Ok([indexer_statuses |-> <<>>,
                                      indexer_sync_percentages |-> <<>>])
    ELSE LET with_chains == SelectSeq(progress_data.progress, HasChainData)
             parsed == [i \in 1..Len(with_chains) |->
                           ParseProgressEntry(with_chains[i], start_block)]
         IN  IF \E i \in 1..Len(parsed) : parsed[i].raised THEN FirstRaised(parsed)
             ELSE Ok([indexer_statuses |-> [i \in 1..Len(parsed) |-> parsed[i].value.status],
                      indexer_sync_percentages |->
                          [i \in 1..Len(parsed) |-> parsed[i].value.sync_pct]])

parse_progress_data(progress_data, start_block) ==
    IF progress_data.is_none THEN Ok([indexer_statuses |-> <<>>,
                                      indexer_sync_percentages |-> <<>>])
    ELSE LET parsed == [i \in 1..Len(progress_data.progress) |->
                           ParseProgressEntry(progress_data.progress[i], start_block)]
         IN  IF \E i \in 1..Len(parsed) : parsed[i].raised THEN FirstRaised(parsed)
             ELSE Ok([indexer_statuses |-> [i \in 1..Len(parsed) |-> parsed[i].value.status],
                      indexer_sync_percentages |->
                          [i \in 1..Len(parsed) |-> parsed[i].value.sync_pct]])

(***************************************************************************)
(* get_subgraph_data_efficiently, after both futures have returned.        *)
(***************************************************************************)
get_subgraph_data_efficiently(progress_future, query_volume_future, start_block) ==
    LET progress_data == IF progress_future.raised THEN NoProgress
                         ELSE progress_future.value
        query_volume_data == IF query_volume_future.raised THEN NoQueryVolume
                             ELSE query_volume_future.value
    IN  IF ~progress_data.is_none
        THEN LET parsed == parse_progress_data(progress_data, start_block)
             IN  IF parsed.raised THEN parsed
                 ELSE Ok([indexer_statuses |-> parsed.value.indexer_statuses,
                          indexer_sync_percentages |-> parsed.value.indexer_sync_percentages,
                          query_volume_data |-> query_volume_data])
        ELSE Ok([indexer_statuses |-> <<>>,
                 indexer_sync_percentages |-> <<>>,
                 query_volume_data |-> query_volume_data])

(***************************************************************************)
(* The summary fold of process_subgraph_version.                           *)
(***************************************************************************)
RECURSIVE Join(_, _)
Join(sep, parts) ==
    IF parts = <<>> THEN <<>>
    ELSE IF Len(parts) = 1 THEN parts[1]
    ELSE parts[1] \o sep \o Join(sep, Tail(parts))

CommaSpace == <<",", " ">>

NoneText == <<"N", "o", "n", "e">>

EndsWithPercent(s) == Len(s) > 0 /\ s[Len(s)] = "%"

\* float(s) of the digit strings get_sync_percentage formats: an integral value
PyFloat(s) == PyInt(s)

\* f"{x:.1f}" of an integral float
FormatFixed1(x) == PyStr(x) \o <<".", "0">>

IsNumericPct(pct) ==
    pct # NA /\ EndsWithPercent(pct) /\ ~PyFloat(SubSeq(pct, 1, Len(pct) - 1)).raised

NumericPercentages(indexer_sync_percentages) ==
    LET kept == SelectSeq(indexer_sync_percentages, IsNumericPct)
    IN  [i \in 1..Len(kept) |-> PyFloat(SubSeq(kept[i], 1, Len(kept[i]) - 1)).value]

HighestSyncPct_Min(indexer_sync_percentages) ==
    LET numeric_percentages == NumericPercentages(indexer_sync_percentages)
    IN  IF numeric_percentages # <<>>
        THEN FormatFixed1(SeqMin(numeric_percentages)) \o Percent
        ELSE <<"0">> \o Percent

HighestSyncPct(indexer_sync_percentages) ==
    LET numeric_percentages == NumericPercentages(indexer_sync_percentages)
    IN  IF numeric_percentages # <<>>
        THEN FormatFixed1(SeqMax(numeric_percentages)) \o Percent
        ELSE <<"0">> \o Percent

IsSuccess(s) == s.status = "success"

IsSynced(s) == s.synced

IsHealthy(s) == s.health = "healthy"

HasIndexerId(s) == s.indexer_id # ""

HasBlocks(s) == s.has_blocks

SummaryStatus_RespondingWithBlocks(indexer_statuses, indexer_sync_percentages) ==
    LET successful_statuses == SelectSeq(indexer_statuses, IsSuccess)
    IN  IF indexer_statuses # <<>>
        THEN [indexers_responding |-> Len(SelectSeq(successful_statuses, HasBlocks)),
              indexers_synced |-> Len(SelectSeq(successful_statuses, IsSynced)),
              indexers_healthy |-> Len(SelectSeq(successful_statuses, IsHealthy)),
              sync_percentage |-> HighestSyncPct(indexer_sync_percentages)]
        ELSE [indexers_responding |-> 0, indexers_synced |-> 0, indexers_healthy |-> 0,
              sync_percentage |-> <<"0">> \o Percent]

SummaryStatus_EmptyNotApplicable(indexer_statuses, indexer_sync_percentages) ==
    LET successful_statuses == SelectSeq(indexer_statuses, IsSuccess)
    IN  IF indexer_statuses # <<>>
        THEN [indexers_responding |-> Len(successful_statuses),
              indexers_synced |-> Len(SelectSeq(successful_statuses, IsSynced)),
              indexers_healthy |-> Len(SelectSeq(successful_statuses, IsHealthy)),
              sync_percentage |-> HighestSyncPct(indexer_sync_percentages)]
        ELSE [indexers_responding |-> 0, indexers_synced |-> 0, indexers_healthy |-> 0,
              sync_percentage |-> NA]

SummaryStatus(indexer_statuses, indexer_sync_percentages) ==
    LET successful_statuses == SelectSeq(indexer_statuses, IsSuccess)
    IN  IF indexer_statuses # <<>>
        THEN [indexers_responding |-> Len(successful_statuses),
              indexers_synced |-> Len(SelectSeq(successful_statuses, IsSynced)),
              indexers_healthy |-> Len(SelectSeq(successful_statuses, IsHealthy)),
              sync_percentage |-> HighestSyncPct(indexer_sync_percentages)]
        ELSE [indexers_responding |-> 0, indexers_synced |-> 0, indexers_healthy |-> 0,
              sync_percentage |-> <<"0">> \o Percent]

BuildRow_CountAllocations(subgraph_id, deployment, data) ==
    LET indexer_statuses == data.indexer_statuses
        indexer_sync_percentages == data.indexer_sync_percentages
        query_volume_data == data.query_volume_data
        progress_indexer_ids ==
            LET with_id == SelectSeq(indexer_statuses, HasIndexerId)
            IN  [i \in 1..Len(with_id) |-> <<with_id[i].indexer_id>>]
        summary == SummaryStatus(indexer_statuses, indexer_sync_percentages)
    IN  [subgraph_id |-> subgraph_id,
         ipfs_hash |-> deployment.ipfsHash,
         signal_amount |-> deployment.signalledTokens,
         active_indexers |-> IF progress_indexer_ids # <<>>
                             THEN Join(CommaSpace, progress_indexer_ids) ELSE NoneText,
         indexer_sync_percentages |-> IF indexer_sync_percentages # <<>>
                                      THEN Join(CommaSpace, indexer_sync_percentages)
                                      ELSE NoneText,
         indexer_count |-> Len(deployment.indexerAllocations),
         indexer_statuses |-> indexer_statuses,
         query_volume_30d |-> IF ~query_volume_data.is_none
                              THEN query_volume_data.query_volume_30d ELSE 0,
         query_volume_days |-> IF ~query_volume_data.is_none
                               THEN query_volume_data.query_volume_days ELSE 0,
         indexers_responding |-> summary.indexers_responding,
         indexers_synced |-> summary.indexers_synced,
         indexers_healthy |-> summary.indexers_healthy,
         sync_percentage |-> summary.sync_percentage]

BuildRow(subgraph_id, deployment, data) ==
    LET indexer_statuses == data.indexer_statuses
        indexer_sync_percentages == data.indexer_sync_percentages
        query_volume_data == data.query_volume_data
        progress_indexer_ids ==
            LET with_id == SelectSeq(indexer_statuses, HasIndexerId)
            IN  [i \in 1..Len(with_id) |-> <<with_id[i].indexer_id>>]
        summary == SummaryStatus(indexer_statuses, indexer_sync_percentages)
    IN  [subgraph_id |-> subgraph_id,
         ipfs_hash |-> deployment.ipfsHash,
         signal_amount |-> deployment.signalledTokens,
         active_indexers |-> IF progress_indexer_ids # <<>>
                             THEN Join(CommaSpace, progress_indexer_ids) ELSE NoneText,
         indexer_sync_percentages |-> IF indexer_sync_percentages # <<>>
                                      THEN Join(CommaSpace, indexer_sync_percentages)
                                      ELSE NoneText,
         indexer_count |-> Len(indexer_statuses),
         indexer_statuses |-> indexer_statuses,
         query_volume_30d |-> IF ~query_volume_data.is_none
                              THEN query_volume_data.query_volume_30d ELSE 0,
         query_volume_days |-> IF ~query_volume_data.is_none
                               THEN query_volume_data.query_volume_days ELSE 0,
         indexers_responding |-> summary.indexers_responding,
         indexers_synced |-> summary.indexers_synced,
         indexers_healthy |-> summary.indexers_healthy,
         sync_percentage |-> summary.sync_percentage]

(***************************************************************************)
(* The responses a status endpoint can give.                               *)
(***************************************************************************)
SeqsUpTo(S, n) == UNION {[1..k -> S] : k \in 0..n}

ProbeChainData ==
    {[network |-> "mainnet", chainHeadBlock |-> h, latestBlock |-> l, earliestBlock |-> e] :
        h \in {Blk(PyStr(3))}, l \in {Blk(PyStr(1)), NoBlk}, e \in {Blk(PyStr(0))}}
    \cup {[network |-> "mainnet", chainHeadBlock |-> Blk(NotANumber),
           latestBlock |-> Blk(PyStr(1)), earliestBlock |-> Blk(PyStr(0))],
          [network |-> "mainnet", chainHeadBlock |-> Blk(PyStr(3)),
           latestBlock |-> Blk(NotANumber), earliestBlock |-> Blk(PyStr(0))],
          [network |-> "mainnet", chainHeadBlock |-> Blk(PyStr(3)),
           latestBlock |-> Blk(PyStr(1)), earliestBlock |-> Blk(NotANumber)],
          [network |-> "mainnet", chainHeadBlock |-> NoBlk,
           latestBlock |-> Blk(PyStr(1)), earliestBlock |-> Blk(PyStr(0))]}

ProbeHealthData ==
    {[health |-> "healthy", fatalError |-> None],
     [health |-> "failed", fatalError |-> "fatal"],
     [health |-> "bogus", fatalError |-> None],
     [health |-> None, fatalError |-> None]}

ProbeStatusData ==
    {[health |-> hd.health, fatalError |-> hd.fatalError, synced |-> sy, chains |-> cs] :
        hd \in ProbeHealthData, sy \in BOOLEAN, cs \in SeqsUpTo(ProbeChainData, MaxChains)}

ProbeBody(has_errors, has_data, features, statuses) ==
    [has_errors |-> has_errors, has_data |-> has_data,
     subgraphFeatures |-> features, indexingStatuses |-> statuses]

HttpResponse(code, is_json, body) ==
    [kind |-> "http", status_code |-> code, is_json |-> is_json, body |-> body]

EmptyBody == ProbeBody(FALSE, FALSE, "absent", <<>>)

ProbeResponses ==
    {[kind |-> k, status_code |-> 0, is_json |-> FALSE, body |-> EmptyBody] :
        k \in {"exception", "timeout"}}
    \cup {HttpResponse(500, FALSE, EmptyBody),
          HttpResponse(200, FALSE, EmptyBody),
          HttpResponse(200, TRUE, ProbeBody(TRUE, FALSE, "absent", <<>>)),
          HttpResponse(200, TRUE, EmptyBody)}
    \cup {HttpResponse(200, TRUE, ProbeBody(FALSE, TRUE, "null", <<sd>>)) :
            sd \in {x \in ProbeStatusData : x.health = "healthy" /\ x.chains = <<>>}}
    \cup {HttpResponse(200, TRUE, ProbeBody(FALSE, TRUE, "present", sts)) :
            sts \in SeqsUpTo(ProbeStatusData, MaxStatuses)}

IndexerUrls ==
    {[scheme |-> "", host |-> "indexer.example", trailing_slashes |-> 1],
     [scheme |-> "http://", host |-> "indexer.example", trailing_slashes |-> 0]}

(***************************************************************************)
(* The listing and the responses of the network for one run.               *)
(***************************************************************************)
Allocations ==
    {<<>>, <<[indexer |-> [id |-> "0xa", url |-> "https://indexer.example/"]]>>}

Version(hash, allocations) ==
    [subgraphDeployment |-> [ipfsHash |-> hash, signalledTokens |-> "1000",
                             indexerAllocations |-> allocations]]

ManifestResponses ==
    {[kind |-> "exception", status_code |-> 0, start_blocks |-> <<>>],
     [kind |-> "http", status_code |-> 200, start_blocks |-> <<>>],
     [kind |-> "http", status_code |-> 200, start_blocks |-> <<PyStr(3), PyStr(2)>>],
     [kind |-> "http", status_code |-> 200, start_blocks |-> <<PyStr(3)>>]}

NoVolumeBody == [has_count |-> FALSE, has_numDays |-> FALSE, count |-> 0, numDays |-> 0]

QueryVolumeResponses ==
    {[kind |-> "exception", status_code |-> 0, is_json |-> FALSE, body |-> NoVolumeBody],
     [kind |-> "http", status_code |-> 200, is_json |-> TRUE,
      body |-> [has_count |-> TRUE, has_numDays |-> TRUE, count |-> 7, numDays |-> 30]]}

ProgressChain(head, latest) ==
    [network |-> "mainnet", chainHeadBlock |-> head, latestBlock |-> latest,
     earliestBlock |-> Blk(PyStr(0))]

HeadBlock == 3

ProgressEntries ==
    {[user |-> "", health |-> h, synced |-> sy, chains |-> cs] :
        h \in {"healthy", "unhealthy"}, sy \in BOOLEAN,
        cs \in {<<>>,
                <<ProgressChain(Blk(PyStr(HeadBlock)), Blk(PyStr(1)))>>,
                <<ProgressChain(Blk(PyStr(HeadBlock)), Blk(PyStr(HeadBlock + 1)))>>}}
    \cup {[user |-> "", health |-> "healthy", synced |-> TRUE, chains |-> cs] :
        cs \in {<<ProgressChain(Blk(PyStr(HeadBlock)), Blk(PyStr(0)))>>,
                <<ProgressChain(Blk(PyStr(HeadBlock)), Blk(NotANumber))>>,
                <<ProgressChain(Blk(PyStr(HeadBlock)), NoBlk)>>}}

Users == <<"0xa", "0xb", "0xc", "0xd">>

ProgressLists ==
    {[i \in 1..Len(es) |-> [es[i] EXCEPT !.user = Users[i]]] :
        es \in SeqsUpTo(ProgressEntries, MaxEntries) \ {<<>>}}

ProgressResponse(code, is_json, has_progress, progress) ==
    [kind |-> "http", status_code |-> code, is_json |-> is_json,
     body |-> [has_progress |-> has_progress, progress |-> progress]]

NoProgressBody == [has_progress |-> FALSE, progress |-> <<>>]

ProgressResponses ==
    {[kind |-> k, status_code |-> 0, is_json |-> FALSE, body |-> NoProgressBody] :
        k \in {"exception", "timeout"}}
    \cup {ProgressResponse(500, FALSE, FALSE, <<>>),
          ProgressResponse(200, FALSE, FALSE, <<>>),
          ProgressResponse(200, TRUE, FALSE, <<>>),
          ProgressResponse(200, TRUE, TRUE, <<>>)}
    \cup {ProgressResponse(200, TRUE, TRUE, es) : es \in ProgressLists}

(***************************************************************************)
(* State of the run: per subgraph, the task of process_subgraph_versions;  *)
(* per version, the task of process_subgraph_version.                      *)
(***************************************************************************)
Tasks(listing) ==
    UNION {{<<sg, vi>> : vi \in DOMAIN listing[sg].versions} : sg \in DOMAIN listing}

NoFuture == [state |-> "none", result |-> Ok(None)]

NoCalls == [manifest |-> 0, progress |-> 0, query_volume |-> 0]

NewTask ==
    [pc |-> "unsubmitted", indexer_urls |-> <<>>, start_block |-> 0,
     progress_future |-> NoFuture, query_volume_future |-> NoFuture,
     indexer_sync_percentages |-> <<>>, result |-> Ok(None), calls |-> NoCalls]

NewSubgraphTask ==
    [pc |-> "ready", max_workers |-> 0, rows |-> <<>>, errors |-> 0, raised |-> FALSE]

FleetPoolCap == 5

NewFleet ==
    [pc |-> "listed", max_workers |-> 0, rows |-> <<>>, completed_subgraphs |-> 0,
     completed_versions |-> 0, assembled |-> FALSE, exc |-> None]

NoFleet ==
    /\ fleet = [NewFleet EXCEPT !.pc = "idle"]
    /\ subgraphs = <<>>
    /\ net = <<>>
    /\ sg_state = <<>>
    /\ task = <<>>

DeploymentOf(t) == subgraphs[t[1]].versions[t[2]].subgraphDeployment

TasksOf(sg) == {t \in DOMAIN task : t[1] = sg}

CalcIdle == [pc |-> "idle", start |-> 0, latest |-> 0, head |-> 0, result |-> Ok(None)]

ProbeIdle ==
    [pc |-> "idle", response |-> HttpResponse(200, TRUE, EmptyBody),
     indexer_url |-> [scheme |-> "", host |-> "", trailing_slashes |-> 0],
     result |-> Ok(None)]

\* One subgraph whose task the fleet pool has handed to its worker.
Init ==
    /\ calc = CalcIdle
    /\ probe = ProbeIdle
    /\ fleet = [NewFleet EXCEPT !.pc = "collecting", !.max_workers = PyMin(FleetPoolCap, 1)]
    /\ \E versions \in {<<>>} \cup {<<Version("Qm1", a)>> : a \in Allocations} :
          subgraphs = <<[id |-> "sg1", versions |-> versions]>>
    /\ \E m \in ManifestResponses, p \in ProgressResponses, q \in QueryVolumeResponses :
          net = [h \in {"Qm1"} |-> [manifest |-> m, progress |-> p, query_volume |-> q]]
    /\ sg_state = [sg \in DOMAIN subgraphs |-> NewSubgraphTask]
    /\ task = [t \in Tasks(subgraphs) |-> NewTask]

(***************************************************************************)
(* process_subgraph_versions                                               *)
(***************************************************************************)
SubgraphPoolCap == 10

StartSubgraph(sg) ==
    /\ sg_state[sg].pc = "ready"
    /\ LET num_versions == Len(subgraphs[sg].versions)
       IN  IF num_versions = 0
           THEN /\ sg_state' = [sg_state EXCEPT ![sg].pc = "returned"]
                /\ UNCHANGED task
           ELSE /\ sg_state' = [sg_state EXCEPT
                                  ![sg].pc = "collecting",
                                  ![sg].max_workers = PyMin(SubgraphPoolCap, num_versions)]
                /\ task' = [t \in DOMAIN task |->
                               IF t[1] = sg THEN [task[t] EXCEPT !.pc = "queued"]
                               ELSE task[t]]
    /\ UNCHANGED <<calc, probe, fleet, subgraphs, net>>

RunningVersions(sg) == {t \in TasksOf(sg) : task[t].pc \in {"started", "fetching"}}

\* future.result() outside the try: the error leaves process_subgraph_versions
CollectVersion_Reraise(t) ==
    /\ sg_state[t[1]].pc = "collecting"
    /\ task[t].pc = "finished"
    /\ task' = [task EXCEPT ![t].pc = "collected"]
    /\ sg_state' = IF task[t].result.raised
                   THEN [sg_state EXCEPT ![t[1]].pc = "returned", ![t[1]].raised = TRUE]
                   ELSE [sg_state EXCEPT ![t[1]].rows = Append(@, task[t].result.value)]
    /\ UNCHANGED <<calc, probe, fleet, subgraphs, net>>

CollectVersion(t) ==
    /\ sg_state[t[1]].pc = "collecting"
    /\ task[t].pc = "finished"
    /\ task' = [task EXCEPT ![t].pc = "collected"]
    /\ sg_state' = IF task[t].result.raised
                   THEN [sg_state EXCEPT ![t[1]].errors = @ + 1]
                   ELSE [sg_state EXCEPT ![t[1]].rows = Append(@, task[t].result.value)]
    /\ UNCHANGED <<calc, probe, fleet, subgraphs, net>>

ReturnSubgraph(sg) ==
    /\ sg_state[sg].pc = "collecting"
    /\ \A t \in TasksOf(sg) : task[t].pc = "collected"
    /\ sg_state' = [sg_state EXCEPT ![sg].pc = "returned"]
    /\ UNCHANGED <<calc, probe, fleet, subgraphs, net, task>>

(***************************************************************************)
(* process_subgraph_version, in the steps at which it blocks.              *)
(***************************************************************************)
HasUrl(alloc) == alloc.indexer.url # None

StartVersion(t) ==
    /\ task[t].pc = "queued"
    /\ Cardinality(RunningVersions(t[1])) < sg_state[t[1]].max_workers
    /\ LET indexer_allocations == DeploymentOf(t).indexerAllocations
           with_url == SelectSeq(indexer_allocations, HasUrl)
       IN  task' = [task EXCEPT
                      ![t].pc = "started",
                      ![t].indexer_urls = [i \in 1..Len(with_url) |-> with_url[i].indexer.url]]
    /\ UNCHANGED <<calc, probe, fleet, subgraphs, net, sg_state>>

FetchManifest(t) ==
    /\ task[t].pc = "started"
    /\ LET manifest == get_manifest_as_string(net[DeploymentOf(t).ipfsHash].manifest)
       IN  task' = [task EXCEPT
                      ![t].pc = "fetching",
                      ![t].calls.manifest = @ + 1,
                      ![t].start_block = IF ~manifest.is_none THEN get_start_block(manifest)
                                         ELSE 0,
                      ![t].progress_future.state = "submitted",
                      ![t].query_volume_future.state = "submitted"]
    /\ UNCHANGED <<calc, probe, fleet, subgraphs, net, sg_state>>

DataPoolCap == 2

\* the pool of get_subgraph_data_efficiently starts a worker for each of its
\* two submitted calls, so a submitted call is one that is executing
RunningProbes(t) ==
    {f \in {"progress", "query_volume"} :
        (IF f = "progress" THEN task[t].progress_future
         ELSE task[t].query_volume_future).state = "submitted"}

RunProgress_Retry(t) ==
    /\ task[t].pc = "fetching"
    /\ task[t].progress_future.state = "submitted"
    /\ LET result == get_subgraph_progress(net[DeploymentOf(t).ipfsHash].progress)
       IN  task' = [task EXCEPT
                      ![t].calls.progress = IF result.value.is_none THEN @ + 2 ELSE @ + 1,
                      ![t].progress_future = [state |-> "done", result |-> result]]
    /\ UNCHANGED <<calc, probe, fleet, subgraphs, net, sg_state>>

\* a second request after a timeout
RunProgress_RetryTimeout(t) ==
    /\ task[t].pc = "fetching"
    /\ task[t].progress_future.state = "submitted"
    /\ task' = [task EXCEPT
                  ![t].calls.progress =
                      IF net[DeploymentOf(t).ipfsHash].progress.kind = "timeout"
                      THEN @ + 2 ELSE @ + 1,
                  ![t].progress_future =
                      [state |-> "done",
                       result |-> get_subgraph_progress(net[DeploymentOf(t).ipfsHash].progress)]]
    /\ UNCHANGED <<calc, probe, fleet, subgraphs, net, sg_state>>

RunProgress(t) ==
    /\ task[t].pc = "fetching"
    /\ task[t].progress_future.state = "submitted"
    /\ task' = [task EXCEPT
                  ![t].calls.progress = @ + 1,
                  ![t].progress_future =
                      [state |-> "done",
                       result |-> get_subgraph_progress(net[DeploymentOf(t).ipfsHash].progress)]]
    /\ UNCHANGED <<calc, probe, fleet, subgraphs, net, sg_state>>

\* the first call to complete wins: a pending progress call is abandoned
RunQueryVolume_AbandonsProgress(t) ==
    /\ task[t].pc = "fetching"
    /\ task[t].query_volume_future.state = "submitted"
    /\ task' = [task EXCEPT
                  ![t].calls.query_volume = @ + 1,
                  ![t].query_volume_future =
                      [state |-> "done",
                       result |-> get_query_volume_30d(
                                      net[DeploymentOf(t).ipfsHash].query_volume)],
                  ![t].progress_future =
                      IF @.state = "submitted"
                      THEN [state |-> "done", result |-> Ok(NoProgress)] ELSE @]
    /\ UNCHANGED <<calc, probe, fleet, subgraphs, net, sg_state>>

RunQueryVolume(t) ==
    /\ task[t].pc = "fetching"
    /\ task[t].query_volume_future.state = "submitted"
    /\ task' = [task EXCEPT
                  ![t].calls.query_volume = @ + 1,
                  ![t].query_volume_future =
                      [state |-> "done",
                       result |-> get_query_volume_30d(
                                      net[DeploymentOf(t).ipfsHash].query_volume)]]
    /\ UNCHANGED <<calc, probe, fleet, subgraphs, net, sg_state>>

\* the row is built as soon as the progress call has settled
FinishVersion_Early(t) ==
    /\ task[t].pc = "fetching"
    /\ task[t].progress_future.state = "done"
    /\ LET query_volume == IF task[t].query_volume_future.state = "done"
                           THEN task[t].query_volume_future.result
                           ELSE Ok(NoQueryVolume)
           data == get_subgraph_data_efficiently(task[t].progress_future.result,
                                                 query_volume, task[t].start_block)
       IN  task' = [task EXCEPT
                      ![t].pc = "finished",
                      ![t].indexer_sync_percentages =
                          IF data.raised THEN <<>> ELSE data.value.indexer_sync_percentages,
                      ![t].result =
                          IF data.raised THEN data
                          ELSE Ok(BuildRow(subgraphs[t[1]].id, DeploymentOf(t), data.value))]
    /\ UNCHANGED <<calc, probe, fleet, subgraphs, net, sg_state>>

FinishVersion(t) ==
    /\ task[t].pc = "fetching"
    /\ task[t].progress_future.state = "done"
    /\ task[t].query_volume_future.state = "done"
    /\ LET data == get_subgraph_data_efficiently(task[t].progress_future.result,
                                                 task[t].query_volume_future.result,
                                                 task[t].start_block)
       IN  task' = [task EXCEPT
                      ![t].pc = "finished",
                      ![t].indexer_sync_percentages =
                          IF data.raised THEN <<>> ELSE data.value.indexer_sync_percentages,
                      ![t].result =
                          IF data.raised THEN data
                          ELSE Ok(BuildRow(subgraphs[t[1]].id, DeploymentOf(t), data.value))]
    /\ UNCHANGED <<calc, probe, fleet, subgraphs, net, sg_state>>

Next ==
    \/ \E sg \in DOMAIN sg_state : StartSubgraph(sg)
    \/ \E t \in DOMAIN task : StartVersion(t)
    \/ \E t \in DOMAIN task : FetchManifest(t)
    \/ \E t \in DOMAIN task : RunProgress(t)
    \/ \E t \in DOMAIN task : RunQueryVolume(t)
    \/ \E t \in DOMAIN task : FinishVersion(t)
    \/ \E t \in DOMAIN task : CollectVersion(t)
    \/ \E sg \in DOMAIN sg_state : ReturnSubgraph(sg)

Spec == Init /\ [][Next]_vars

(***************************************************************************)
(* The calculator applied to bounded integer arguments.                    *)
(***************************************************************************)
CalcArgs == (0 - 1)..MaxBlock

InitCalc ==
    /\ \E s \in CalcArgs, l \in CalcArgs, h \in CalcArgs :
          calc = [pc |-> "ready", start |-> s, latest |-> l, head |-> h, result |-> Ok(None)]
    /\ probe = ProbeIdle
    /\ NoFleet

CallGetSyncPercentage ==
    /\ calc.pc = "ready"
    /\ calc' = [calc EXCEPT !.pc = "returned",
                            !.result = get_sync_percentage(calc.start, calc.latest, calc.head)]
    /\ UNCHANGED <<probe, fleet, subgraphs, net, sg_state, task>>

(***************************************************************************)
(* The direct-indexer probe applied to one response.                       *)
(***************************************************************************)
InitProbe ==
    /\ calc = CalcIdle
    /\ NoFleet
    /\ \E r \in ProbeResponses, u \in IndexerUrls :
          probe = [pc |-> "ready", response |-> r, indexer_url |-> u, result |-> Ok(None)]

CallCheckIndexerStatus ==
    /\ probe.pc = "ready"
    /\ probe' = [probe EXCEPT !.pc = "returned",
                              !.result = check_indexer_status(probe.response, probe.indexer_url)]
    /\ UNCHANGED <<calc, fleet, subgraphs, net, sg_state, task>>

NextProbe == CallCheckIndexerStatus

SpecProbe == InitProbe /\ [][NextProbe]_vars

NextCalc == CallGetSyncPercentage

SpecCalc == InitCalc /\ [][NextCalc]_vars

(***************************************************************************)
(* The fleet run: the script body from the listing (line 759) to the CSV   *)
(* file (line 817).                                                        *)
(***************************************************************************)
\* ThreadPoolExecutor.__init__ rejects a pool without workers
ThreadPoolExecutor(max_workers) ==
    IF max_workers <= 0 THEN Raise("ValueError") ELSE Ok(max_workers)

RunningSubgraphs ==
    {sg \in DOMAIN sg_state : sg_state[sg].pc \in {"ready", "collecting"}}

FleetStart ==
    /\ fleet.pc = "listed"
    /\ LET max_subgraph_workers == PyMin(FleetPoolCap, Len(subgraphs))
           executor == ThreadPoolExecutor(max_subgraph_workers)
       IN  IF executor.raised
           THEN /\ fleet' = [fleet EXCEPT !.pc = "crashed", !.exc = executor.exc]
                /\ UNCHANGED sg_state
           ELSE /\ fleet' = [fleet EXCEPT !.pc = "collecting",
                                          !.max_workers = executor.value]
                /\ sg_state' = [sg \in DOMAIN sg_state |->
                                   [sg_state[sg] EXCEPT !.pc = "queued"]]
    /\ UNCHANGED <<calc, probe, subgraphs, net, task>>

\* a pool that starts every submitted task at once
BeginSubgraph_NoCap(sg) ==
    /\ sg_state[sg].pc = "queued"
    /\ sg_state' = [sg_state EXCEPT ![sg].pc = "ready"]
    /\ UNCHANGED <<calc, probe, fleet, subgraphs, net, task>>

BeginSubgraph(sg) ==
    /\ sg_state[sg].pc = "queued"
    /\ Cardinality(RunningSubgraphs) < fleet.max_workers
    /\ sg_state' = [sg_state EXCEPT ![sg].pc = "ready"]
    /\ UNCHANGED <<calc, probe, fleet, subgraphs, net, task>>

CollectSubgraph(sg) ==
    /\ fleet.pc = "collecting"
    /\ sg_state[sg].pc = "returned"
    /\ LET subgraph_rows == sg_state[sg].rows
       IN  fleet' = IF sg_state[sg].raised
                    THEN [fleet EXCEPT !.completed_subgraphs = @ + 1]
                    ELSE [fleet EXCEPT
                            !.rows = @ \o subgraph_rows,
                            !.completed_subgraphs = @ + 1,
                            !.completed_versions = @ + Len(subgraph_rows)]
    /\ sg_state' = [sg_state EXCEPT ![sg].pc = "gathered"]
    /\ UNCHANGED <<calc, probe, subgraphs, net, task>>

AssembleReport ==
    /\ fleet.pc = "collecting"
    /\ \A sg \in DOMAIN sg_state : sg_state[sg].pc = "gathered"
    /\ fleet' = [fleet EXCEPT !.pc = "report", !.assembled = TRUE]
    /\ UNCHANGED <<calc, probe, subgraphs, net, sg_state, task>>

\* df.drop('indexer_statuses', axis=1) finds no such column in an empty frame
SaveCsv ==
    /\ fleet.pc = "report"
    /\ fleet' = IF fleet.rows = <<>>
                THEN [fleet EXCEPT !.pc = "crashed", !.exc = "KeyError"]
                ELSE [fleet EXCEPT !.pc = "saved"]
    /\ UNCHANGED <<calc, probe, subgraphs, net, sg_state, task>>

(***************************************************************************)
(* Listings of several subgraphs and versions, over two deployments with   *)
(* fixed responses: "Qm1" reports one synced source, "Qm2" an entry whose  *)
(* latest block is not a number.                                           *)
(***************************************************************************)
MaxSubgraphs == 2

MaxDeployments == 2

FleetHashes == {"Qm1", "Qm2"}

SubgraphIds == <<"sg1", "sg2", "sg3", "sg4", "sg5", "sg6", "sg7">>

RECURSIVE TotalVersions(_)
TotalVersions(version_lists) ==
    IF version_lists = <<>> THEN 0
    ELSE Len(Head(version_lists)) + TotalVersions(Tail(version_lists))

Listing(version_lists) ==
    [i \in 1..Len(version_lists) |-> [id |-> SubgraphIds[i], versions |-> version_lists[i]]]

\* the run treats every position of the listing alike: the subgraphs with
\* more versions are listed first
LongestFirst(version_lists) ==
    \A i \in 1..(Len(version_lists) - 1) :
        Len(version_lists[i]) >= Len(version_lists[i + 1])

FleetListings ==
    {Listing(vs) :
        vs \in {x \in SeqsUpTo(SeqsUpTo({Version(h, <<>>) : h \in FleetHashes},
                                        MaxDeployments), MaxSubgraphs) :
                   TotalVersions(x) <= MaxDeployments /\ LongestFirst(x)}}
    \cup {Listing([i \in 1..(FleetPoolCap + 1) |-> <<>>])}

FleetProgress(hash) ==
    LET latest == IF hash = "Qm1" THEN Blk(PyStr(1)) ELSE Blk(NotANumber)
    IN  ProgressResponse(200, TRUE, TRUE,
            <<[user |-> "0xa", health |-> "healthy", synced |-> TRUE,
               chains |-> <<ProgressChain(Blk(PyStr(HeadBlock)), latest)>>]>>)

FleetNet ==
    [h \in FleetHashes |->
        [manifest |-> [kind |-> "http", status_code |-> 200, start_blocks |-> <<>>],
         progress |-> FleetProgress(h),
         query_volume |-> [kind |-> "http", status_code |-> 200, is_json |-> TRUE,
                           body |-> [has_count |-> TRUE, has_numDays |-> TRUE,
                                     count |-> 7, numDays |-> 30]]]]

InitFleet ==
    /\ calc = CalcIdle
    /\ probe = ProbeIdle
    /\ fleet = NewFleet
    /\ subgraphs \in FleetListings
    /\ net = FleetNet
    /\ sg_state = [sg \in DOMAIN subgraphs |-> [NewSubgraphTask EXCEPT !.pc = "unsubmitted"]]
    /\ task = [t \in Tasks(subgraphs) |-> NewTask]

NextFleet ==
    \/ FleetStart
    \/ \E sg \in DOMAIN sg_state : BeginSubgraph(sg)
    \/ \E sg \in DOMAIN sg_state : StartSubgraph(sg)
    \/ \E t \in DOMAIN task : StartVersion(t)
    \/ \E t \in DOMAIN task : FetchManifest(t)
    \/ \E t \in DOMAIN task : RunProgress(t)
    \/ \E t \in DOMAIN task : RunQueryVolume(t)
    \/ \E t \in DOMAIN task : FinishVersion(t)
    \/ \E t \in DOMAIN task : CollectVersion(t)
    \/ \E sg \in DOMAIN sg_state : ReturnSubgraph(sg)
    \/ \E sg \in DOMAIN sg_state : CollectSubgraph(sg)
    \/ AssembleReport
    \/ SaveCsv

SpecFleet == InitFleet /\ [][NextFleet]_vars

(***************************************************************************)
(* Reading a percentage string back as a number, in tenths of a percent:   *)
(* "50%" and "50.0%" both read 500.  Used to state the claims only.        *)
(***************************************************************************)
IsPercentString(s) ==
    /\ Len(s) >= 2
    /\ s[Len(s)] = "%"
    /\ LET body == SubSeq(s, 1, Len(s) - 1)
       IN  \/ ~PyInt(body).raised
           \/ /\ Len(body) >= 3
              /\ body[Len(body) - 1] = "."
              /\ IsDigit(body[Len(body)])
              /\ ~PyInt(SubSeq(body, 1, Len(body) - 2)).raised

Tenths(s) ==
    LET body == SubSeq(s, 1, Len(s) - 1)
    IN  IF ~PyInt(body).raised THEN PyInt(body).value * 10
        ELSE LET whole == SubSeq(body, 1, Len(body) - 2)
                 frac == DigitValue(body[Len(body)])
             IN  IF whole[1] = "-" THEN PyInt(whole).value * 10 - frac
                 ELSE PyInt(whole).value * 10 + frac

(***************************************************************************)
(* C1: for head > start >= 0 and latest >= 0, an applicable result of      *)
(* get_sync_percentage is a percentage between 0 and 100.                  *)
(***************************************************************************)
C1_ResultInRange ==
    (/\ calc.pc = "returned"
     /\ calc.head > calc.start /\ calc.start >= 0 /\ calc.latest >= 0
     /\ ~calc.result.raised
     /\ calc.result.value # NA)
    => /\ IsPercentString(calc.result.value)
       /\ Tenths(calc.result.value) >= 0
       /\ Tenths(calc.result.value) <= 1000

(***************************************************************************)
(* C2: get_sync_percentage returns "N/A" whenever latest = 0 and whenever  *)
(* head <= start, and raises for no integer arguments.                     *)
(***************************************************************************)
C2_NotApplicableNeverRaises ==
    calc.pc = "returned"
    => /\ ~calc.result.raised
       /\ (calc.latest = 0 \/ calc.head <= calc.start) => calc.result.value = NA

C2_Witness ==
    /\ calc.pc = "returned"
    /\ calc.latest # 0
    /\ calc.head = calc.start
    /\ calc.result = Ok(NA)
(***************************************************************************)
(* C9: check_indexer_status returns one status record and never raises;    *)
(* a non-200 response, an error payload, a missing 'data' field, zero      *)
(* indexing-status records, an unknown health value, a non-numeric block   *)
(* number (among those the probe reads: the first chain of the first       *)
(* record) and a network exception or timeout each give outcome 'error'    *)
(* with a cause string; outcome 'success' is given only for a well-formed  *)
(* response with at least one record.                                      *)
(***************************************************************************)
BodyRead(r) == r.kind = "http" /\ r.status_code = 200 /\ r.is_json

KnownHealth(sd) == sd.health \in {"healthy", "unhealthy", "failed", None}

NumericBlk(b) == b.present /\ ~PyInt(b.number).raised

ReadBlocksNumeric(sd) ==
    sd.chains # <<>> =>
        /\ NumericBlk(sd.chains[1].chainHeadBlock)
        /\ NumericBlk(sd.chains[1].earliestBlock)
        /\ (sd.chains[1].latestBlock.present => NumericBlk(sd.chains[1].latestBlock))

HasNonNumericReadBlock(sd) ==
    /\ sd.chains # <<>>
    /\ \E b \in {sd.chains[1].chainHeadBlock, sd.chains[1].earliestBlock,
                 sd.chains[1].latestBlock} : b.present /\ PyInt(b.number).raised

ListedProbeFailure(r) ==
    \/ r.kind \in {"exception", "timeout"}
    \/ r.kind = "http" /\ r.status_code # 200
    \/ /\ BodyRead(r)
       /\ \/ r.body.has_errors
          \/ ~r.body.has_data
          \/ r.body.indexingStatuses = <<>>
          \/ \E i \in 1..Len(r.body.indexingStatuses) : ~KnownHealth(r.body.indexingStatuses[i])
          \/ HasNonNumericReadBlock(r.body.indexingStatuses[1])

WellFormedProbeResponse(r) ==
    /\ BodyRead(r)
    /\ ~r.body.has_errors
    /\ r.body.has_data
    /\ Len(r.body.indexingStatuses) >= 1
    /\ \A i \in 1..Len(r.body.indexingStatuses) : KnownHealth(r.body.indexingStatuses[i])
    /\ ReadBlocksNumeric(r.body.indexingStatuses[1])

Returned(t) == task[t].pc \in {"finished", "collected"}

HasRow(t) == Returned(t) /\ ~task[t].result.raised

RowOf(t) == task[t].result.value

ProgressOf(t) == net[DeploymentOf(t).ipfsHash].progress

\* the response carries a non-empty 'progress' list that reaches parse_progress_data
HasEntries(r) ==
    /\ r.kind = "http" /\ r.status_code = 200 /\ r.is_json
    /\ r.body.has_progress /\ r.body.progress # <<>>

\* an entry with chain data in which a block number the parser reads is
\* non-numeric or a block field is missing
MalformedEntry(e) ==
    /\ e.chains # <<>>
    /\ \E b \in {e.chains[1].chainHeadBlock, e.chains[1].latestBlock,
                 e.chains[1].earliestBlock} : ~NumericBlk(b)

Count(xs, Test(_)) == Cardinality({i \in 1..Len(xs) : Test(xs[i])})

(***************************************************************************)
(* C3: in every summary row, indexers_responding <= indexer_count,         *)
(* indexers_synced <= indexers_responding and indexers_healthy <=          *)
(* indexers_responding.                                                    *)
(***************************************************************************)
C3_CountsOrdered ==
    \A t \in DOMAIN task :
        HasRow(t) => /\ RowOf(t).indexers_responding <= RowOf(t).indexer_count
                     /\ RowOf(t).indexers_synced <= RowOf(t).indexers_responding
                     /\ RowOf(t).indexers_healthy <= RowOf(t).indexers_responding

C3_Witness ==
    \E t \in DOMAIN task :
        /\ HasRow(t)
        /\ RowOf(t).indexer_count = 2
        /\ RowOf(t).indexers_responding = 2
        /\ RowOf(t).indexers_synced = 1
        /\ RowOf(t).indexers_healthy = 0

(***************************************************************************)
(* C4: in every summary row, the highest sync percentage is a percentage   *)
(* between 0 and 100.                                                      *)
(***************************************************************************)
C4_HighestInRange ==
    \A t \in DOMAIN task :
        HasRow(t) => /\ IsPercentString(RowOf(t).sync_percentage)
                     /\ Tenths(RowOf(t).sync_percentage) >= 0
                     /\ Tenths(RowOf(t).sync_percentage) <= 1000

(***************************************************************************)
(* C5: the highest sync percentage of a summary is numerically the maximum *)
(* of the per-source percentages that are not "N/A", and is "0%" when      *)
(* there is no source or every per-source percentage is "N/A".             *)
(***************************************************************************)
ApplicableTenths(pcts) == {Tenths(pcts[i]) : i \in {j \in 1..Len(pcts) : pcts[j] # NA}}

C5_HighestIsMaximum ==
    \A t \in DOMAIN task :
        HasRow(t) =>
            LET applicable == ApplicableTenths(task[t].indexer_sync_percentages)
            IN  IF applicable = {}
                THEN RowOf(t).sync_percentage = <<"0", "%">>
                ELSE /\ IsPercentString(RowOf(t).sync_percentage)
                     /\ Tenths(RowOf(t).sync_percentage) \in applicable
                     /\ \A x \in applicable : x <= Tenths(RowOf(t).sync_percentage)

C5_Witness ==
    \E t \in DOMAIN task :
        /\ HasRow(t)
        /\ Cardinality(ApplicableTenths(task[t].indexer_sync_percentages)) = 2
        /\ Tenths(RowOf(t).sync_percentage) = 1000

(***************************************************************************)
(* C6: a deployment with empty indexerAllocations gets a summary with all  *)
(* counts 0 and highest sync percentage "0%" and makes no outbound call.   *)
(***************************************************************************)
TotalCalls(t) == task[t].calls.manifest + task[t].calls.progress + task[t].calls.query_volume

AllCountsZero(row) ==
    /\ row.indexer_count = 0
    /\ row.indexers_responding = 0
    /\ row.indexers_synced = 0
    /\ row.indexers_healthy = 0
    /\ row.sync_percentage = <<"0", "%">>

C6_NoDescriptorsNoCalls ==
    \A t \in DOMAIN task :
        (Returned(t) /\ DeploymentOf(t).indexerAllocations = <<>>)
        => /\ HasRow(t)
           /\ AllCountsZero(RowOf(t))
           /\ TotalCalls(t) = 0

(***************************************************************************)
(* C6 as amended: a deployment with empty indexerAllocations makes exactly *)
(* three outbound calls (manifest, progress, query volume), one each, and  *)
(* its summary has all counts 0 and highest sync percentage "0%" whenever  *)
(* the progress call yields no source entries.                             *)
(***************************************************************************)
C6_NoDescriptorsThreeCalls ==
    \A t \in DOMAIN task :
        (Returned(t) /\ DeploymentOf(t).indexerAllocations = <<>>)
        => /\ task[t].calls = [manifest |-> 1, progress |-> 1, query_volume |-> 1]
           /\ ~HasEntries(ProgressOf(t)) => HasRow(t) /\ AllCountsZero(RowOf(t))

C6_Witness ==
    \E t \in DOMAIN task :
        /\ task[t].pc = "collected"
        /\ DeploymentOf(t).indexerAllocations = <<>>
        /\ ProgressOf(t).kind = "http" /\ ProgressOf(t).status_code = 200
        /\ ProgressOf(t).is_json /\ ~ProgressOf(t).body.has_progress
        /\ TotalCalls(t) = 3
        /\ sg_state[t[1]].rows = <<RowOf(t)>>
        /\ AllCountsZero(RowOf(t))

(***************************************************************************)
(* C7: when one entry of the progress response is malformed (a non-numeric *)
(* block number or a missing block field), the deployment still gets its   *)
(* summary, in which that source is recorded with status 'error'; the      *)
(* error does not leave the probe and the deployment is not dropped.       *)
(***************************************************************************)
C7_MalformedEntryRecorded ==
    \A t \in DOMAIN task :
        (/\ task[t].pc = "collected"
         /\ HasEntries(ProgressOf(t))
         /\ \E i \in 1..Len(ProgressOf(t).body.progress) :
               MalformedEntry(ProgressOf(t).body.progress[i]))
        => /\ ~task[t].result.raised
           /\ sg_state[t[1]].errors = 0
           /\ \E i \in 1..Len(sg_state[t[1]].rows) :
                 /\ sg_state[t[1]].rows[i].ipfs_hash = DeploymentOf(t).ipfsHash
                 /\ \E j \in 1..Len(sg_state[t[1]].rows[i].indexer_statuses) :
                       sg_state[t[1]].rows[i].indexer_statuses[j].status = "error"

(***************************************************************************)
(* C8: when the progress call fails (exception, timeout, non-200, no       *)
(* JSON), or its response has no 'progress' field or an empty list, the    *)
(* deployment still gets a summary, with indexer_count 0, responding,      *)
(* synced and healthy counts 0 and highest sync percentage "0%", and no    *)
(* error reaches the collector of process_subgraph_versions.               *)
(***************************************************************************)
C8_NoProgressZeroSummary ==
    \A t \in DOMAIN task :
        (Returned(t) /\ ~HasEntries(ProgressOf(t)))
        => /\ HasRow(t)
           /\ AllCountsZero(RowOf(t))
           /\ task[t].pc = "collected"
                => sg_state[t[1]].errors = 0 /\ sg_state[t[1]].rows = <<RowOf(t)>>

C8_Witness ==
    \E t \in DOMAIN task :
        /\ task[t].pc = "collected"
        /\ ProgressOf(t).kind = "timeout"
        /\ sg_state[t[1]].rows = <<RowOf(t)>>
        /\ AllCountsZero(RowOf(t))

(***************************************************************************)
(* C10: for a progress response with k entries, a summary has              *)
(* indexer_count = k, a per-source percentage list of k elements (joined   *)
(* from k parts), one status per entry in order, "N/A" for each entry      *)
(* without chain data, and indexers_synced = the number of entries whose   *)
(* synced flag is true.                                                    *)
(***************************************************************************)
EntrySynced(e) == e.synced

IsComma(c) == c = ","

C10_OneStatusPerEntry ==
    \A t \in DOMAIN task :
        (HasRow(t) /\ HasEntries(ProgressOf(t)))
        => LET entries == ProgressOf(t).body.progress
               k == Len(entries)
               row == RowOf(t)
           IN  /\ row.indexer_count = k
               /\ Len(row.indexer_statuses) = k
               /\ Len(task[t].indexer_sync_percentages) = k
               /\ Count(row.indexer_sync_percentages, IsComma) = k - 1
               /\ \A i \in 1..k :
                     /\ row.indexer_statuses[i].indexer_id = entries[i].user
                     /\ entries[i].chains = <<>> => task[t].indexer_sync_percentages[i] = NA
               /\ row.indexers_synced = Count(entries, EntrySynced)

C10_Witness ==
    \E t \in DOMAIN task :
        /\ HasRow(t)
        /\ HasEntries(ProgressOf(t))
        /\ LET entries == ProgressOf(t).body.progress
           IN  /\ Len(entries) = 2
               /\ entries[1].chains # <<>> /\ entries[1].synced
               /\ entries[2].chains = <<>> /\ ~entries[2].synced
        /\ RowOf(t).indexer_count = 2
        /\ RowOf(t).indexers_synced = 1
        /\ task[t].indexer_sync_percentages[2] = NA
        /\ task[t].indexer_sync_percentages[1] # NA

(***************************************************************************)
(* C11: for a deployment with at least one direct-indexer source           *)
(* descriptor (an allocation with a url), if every probe fails then the    *)
(* summary has indexer_count > 0 and indexers_responding = 0.              *)
(***************************************************************************)
ProgressFailed(r) == r.kind # "http" \/ r.status_code # 200 \/ ~r.is_json

EveryProbeFailed(t) ==
    /\ ProgressFailed(ProgressOf(t))
    /\ net[DeploymentOf(t).ipfsHash].manifest.kind = "exception"
    /\ net[DeploymentOf(t).ipfsHash].query_volume.kind = "exception"

C11_AllFailedTotalPositive ==
    \A t \in DOMAIN task :
        (Returned(t) /\ task[t].indexer_urls # <<>> /\ EveryProbeFailed(t))
        => /\ HasRow(t)
           /\ RowOf(t).indexer_count > 0
           /\ RowOf(t).indexers_responding = 0

(***************************************************************************)
(* C11 as amended: a deployment with at least one direct-indexer source    *)
(* descriptor is probed through the progress endpoint only (one manifest,  *)
(* one progress and one query-volume call, none per descriptor); if the    *)
(* progress call fails, the summary has indexer_count = 0, no status       *)
(* record and indexers_responding = 0.                                     *)
(***************************************************************************)
C11_AllFailedTotalZero ==
    \A t \in DOMAIN task :
        (Returned(t) /\ task[t].indexer_urls # <<>>)
        => /\ task[t].calls = [manifest |-> 1, progress |-> 1, query_volume |-> 1]
           /\ ProgressFailed(ProgressOf(t))
                => /\ HasRow(t)
                   /\ RowOf(t).indexer_count = 0
                   /\ RowOf(t).indexer_statuses = <<>>
                   /\ RowOf(t).indexers_responding = 0

C11_Witness ==
    \E t \in DOMAIN task :
        /\ task[t].pc = "collected"
        /\ Len(task[t].indexer_urls) = 1
        /\ EveryProbeFailed(t)
        /\ ProgressOf(t).kind = "exception"
        /\ HasRow(t)
        /\ RowOf(t).indexer_count = 0
        /\ sg_state[t[1]].rows = <<RowOf(t)>>

(***************************************************************************)
(* C12: in a fleet run over N deployments in which exactly one             *)
(* deployment's aggregation raises, the exception is caught (counted by    *)
(* the collector of its subgraph, never reaching the fleet loop), the run  *)
(* does not stop on it (every subgraph is completed), and the assembled    *)
(* report holds exactly N-1 summaries: the row of every other deployment,  *)
(* as often as it was produced, and none for the failed one.               *)
(***************************************************************************)
FailedTasks == {t \in DOMAIN task : Returned(t) /\ task[t].result.raised}

Occurrences(rows, row) == Cardinality({i \in 1..Len(rows) : rows[i] = row})

C12_OneFailureDropsOne ==
    Cardinality(FailedTasks) = 1
    => LET failed == CHOOSE t \in FailedTasks : TRUE
           others == DOMAIN task \ {failed}
       IN  /\ fleet.pc # "crashed" \/ fleet.assembled
           /\ \A sg \in DOMAIN sg_state : ~sg_state[sg].raised
           /\ task[failed].pc = "collected" => sg_state[failed[1]].errors = 1
           /\ fleet.assembled
                => /\ Len(fleet.rows) = Cardinality(DOMAIN task) - 1
                   /\ fleet.completed_subgraphs = Len(subgraphs)
                   /\ \A t \in others :
                         /\ HasRow(t)
                         /\ Occurrences(fleet.rows, RowOf(t))
                              = Cardinality({u \in others : RowOf(u) = RowOf(t)})
                   /\ \A i \in 1..Len(fleet.rows) :
                         \/ fleet.rows[i].ipfs_hash # DeploymentOf(failed).ipfsHash
                         \/ fleet.rows[i].subgraph_id # subgraphs[failed[1]].id

\* two deployments of one subgraph, the first one failing, the report saved
C12_Witness ==
    /\ fleet.pc = "saved"
    /\ DOMAIN task = {<<1, 1>>, <<1, 2>>}
    /\ FailedTasks = {<<1, 1>>}
    /\ fleet.rows = <<RowOf(<<1, 2>>)>>

(***************************************************************************)
(* C13: once the listing has been obtained, the fleet run never stops on   *)
(* an unhandled error before the report is assembled, whatever the number  *)
(* of subgraphs (zero included) and of versions per subgraph (zero         *)
(* included).                                                              *)
(***************************************************************************)
C13_ReachesReport == fleet.pc = "crashed" => fleet.assembled

(***************************************************************************)
(* C14: at every moment the number of deployment-level aggregations        *)
(* (process_subgraph_version) executing is at most the worker cap of the   *)
(* fleet pool, and the number of probes executing within one deployment    *)
(* is at most the worker cap of that deployment's pool.                    *)
(***************************************************************************)
RunningAggregations == UNION {RunningVersions(sg) : sg \in DOMAIN sg_state}

C14_AggregationsWithinFleetCap ==
    /\ Cardinality(RunningAggregations) <= fleet.max_workers
    /\ \A t \in DOMAIN task : Cardinality(RunningProbes(t)) <= DataPoolCap

(***************************************************************************)
(* C14 as amended: there are three nested pools.  At every moment the      *)
(* number of subgraph tasks (process_subgraph_versions) executing is at    *)
(* most the fleet pool's cap min(5, subgraphs); within one subgraph the    *)
(* number of deployment-level aggregations executing is at most that       *)
(* subgraph's pool's cap min(10, versions), so that at most 5 * 10 run in  *)
(* the whole fleet; within one deployment at most 2 probes execute.        *)
(***************************************************************************)
C14_PoolCapsRespected ==
    /\ Cardinality(RunningSubgraphs) <= fleet.max_workers
    /\ fleet.max_workers <= PyMin(FleetPoolCap, Len(subgraphs))
    /\ \A sg \in DOMAIN sg_state :
          /\ Cardinality(RunningVersions(sg)) <= sg_state[sg].max_workers
          /\ sg_state[sg].max_workers <= PyMin(SubgraphPoolCap, Len(subgraphs[sg].versions))
    /\ Cardinality(RunningAggregations) <= FleetPoolCap * SubgraphPoolCap
    /\ \A t \in DOMAIN task : Cardinality(RunningProbes(t)) <= DataPoolCap

\* the fleet pool is full and a submitted subgraph task waits for a worker
C14_Witness ==
    /\ Cardinality(RunningSubgraphs) = FleetPoolCap
    /\ \E sg \in DOMAIN sg_state : sg_state[sg].pc = "queued"

(***************************************************************************)
(* C15: no probe is retried.  Each deployment-level aggregation calls the  *)
(* manifest, progress and query-volume endpoints at most once, and the     *)
(* progress endpoint exactly once by the time its call has settled,        *)
(* whether the call succeeded, failed or timed out; a failed call leaves   *)
(* one settled result (no data) and no further call is made.               *)
(***************************************************************************)
C15_NoProbeRetried ==
    \A t \in DOMAIN task :
        /\ task[t].calls.manifest <= 1
        /\ task[t].calls.progress <= 1
        /\ task[t].calls.query_volume <= 1
        /\ task[t].progress_future.state = "done" <=> task[t].calls.progress = 1
        /\ Returned(t) => task[t].calls.progress = 1
        /\ (task[t].progress_future.state = "done" /\ ProgressFailed(ProgressOf(t)))
              => task[t].progress_future.result = Ok(NoProgress)

C15_Witness ==
    \E t \in DOMAIN task :
        /\ task[t].pc = "collected"
        /\ ProgressOf(t).kind = "timeout"
        /\ task[t].progress_future.result = Ok(NoProgress)
        /\ task[t].calls.progress = 1

(***************************************************************************)
(* C16: two aggregations of the same deployment with identical responses,  *)
(* run concurrently in any interleaving and completion order, end alike:   *)
(* both raise, or both give summaries with the same indexer_count,         *)
(* responding, synced and healthy counts, the same highest sync            *)
(* percentage and the same per-source statuses up to their order.          *)
(***************************************************************************)
SamePerSourceList(xs, ys) ==
    /\ Len(xs) = Len(ys)
    /\ \A i \in 1..Len(xs) : Occurrences(xs, xs[i]) = Occurrences(ys, xs[i])

C16_SameResponsesSameSummary ==
    \A t \in DOMAIN task : \A u \in DOMAIN task :
        (/\ Returned(t) /\ Returned(u)
         /\ DeploymentOf(t) = DeploymentOf(u))
        => /\ task[t].result.raised = task[u].result.raised
           /\ ~task[t].result.raised
                => /\ RowOf(t).indexer_count = RowOf(u).indexer_count
                   /\ RowOf(t).indexers_responding = RowOf(u).indexers_responding
                   /\ RowOf(t).indexers_synced = RowOf(u).indexers_synced
                   /\ RowOf(t).indexers_healthy = RowOf(u).indexers_healthy
                   /\ RowOf(t).sync_percentage = RowOf(u).sync_percentage
                   /\ SamePerSourceList(RowOf(t).indexer_statuses,
                                        RowOf(u).indexer_statuses)

\* the same deployment aggregated under two subgraphs, both summaries reported
C16_Witness ==
    \E t \in DOMAIN task : \E u \in DOMAIN task :
        /\ t[1] # u[1]
        /\ DeploymentOf(t) = DeploymentOf(u)
        /\ HasRow(t) /\ HasRow(u)
        /\ RowOf(t).indexer_count = 1
        /\ RowOf(t).sync_percentage = RowOf(u).sync_percentage
        /\ fleet.assembled
        /\ Len(fleet.rows) = 2

(***************************************************************************)
(* C17: for fixed start and head with head > start, get_sync_percentage is *)
(* monotonic non-decreasing in latest: the percentage returned for latest  *)
(* is at least the percentage returned for every smaller latest, whenever  *)
(* both results are applicable (a percentage, not "N/A").                  *)
(***************************************************************************)
Applicable(result) ==
    ~result.raised /\ result.value # NA /\ IsPercentString(result.value)

C17_MonotonicInLatest ==
    (calc.pc = "returned" /\ calc.head > calc.start)
    => /\ ~calc.result.raised
       /\ \A latest1 \in CalcArgs :
             LET result1 == get_sync_percentage(calc.start, latest1, calc.head)
             IN  (/\ latest1 <= calc.latest
                  /\ Applicable(result1)
                  /\ Applicable(calc.result))
                 => Tenths(result1.value) <= Tenths(calc.result.value)

\* a strictly larger percentage for a larger latest, below the clamp
C17_Witness ==
    /\ calc.pc = "returned"
    /\ calc.head > calc.start
    /\ Applicable(calc.result)
    /\ Tenths(calc.result.value) < 1000
    /\ \E latest1 \in CalcArgs :
          LET result1 == get_sync_percentage(calc.start, latest1, calc.head)
          IN  /\ latest1 < calc.latest
              /\ Applicable(result1)
              /\ Tenths(result1.value) < Tenths(calc.result.value)

(***************************************************************************)
(* C18: a deployment's summary is built, and added to the rows of its      *)
(* subgraph and to the fleet report, only after both calls dispatched for  *)
(* that deployment have settled; the report is assembled and saved only    *)
(* after every submitted subgraph task and every deployment task has       *)
(* settled and been collected; and the rows already in the report are      *)
(* never modified: the report only grows at its end until it is            *)
(* assembled, and not at all afterwards.                                   *)
(***************************************************************************)
ProbesSettled(t) ==
    /\ task[t].progress_future.state = "done"
    /\ task[t].query_volume_future.state = "done"

CollectedRows(sg) == {RowOf(t) : t \in {u \in TasksOf(sg) : task[u].pc = "collected" /\ HasRow(u)}}

SummaryAfterProbes ==
    /\ \A t \in DOMAIN task : Returned(t) => ProbesSettled(t)
    /\ \A sg \in DOMAIN sg_state :
          /\ \A i \in 1..Len(sg_state[sg].rows) : sg_state[sg].rows[i] \in CollectedRows(sg)
          /\ sg_state[sg].pc \in {"returned", "gathered"}
                => \A t \in TasksOf(sg) : task[t].pc = "collected"
    /\ \A i \in 1..Len(fleet.rows) :
          \E sg \in DOMAIN sg_state :
              sg_state[sg].pc = "gathered" /\ fleet.rows[i] \in CollectedRows(sg)

ReportAfterTasks ==
    fleet.assembled
    => /\ \A sg \in DOMAIN sg_state : sg_state[sg].pc = "gathered"
       /\ \A t \in DOMAIN task : task[t].pc = "collected" /\ ProbesSettled(t)

ReportRowsKept ==
    /\ Len(fleet.rows') >= Len(fleet.rows)
    /\ \A i \in 1..Len(fleet.rows) : fleet.rows'[i] = fleet.rows[i]
    /\ fleet.assembled => fleet.rows' = fleet.rows

C18_ReportAfterSettled ==
    /\ [](SummaryAfterProbes /\ ReportAfterTasks)
    /\ [][ReportRowsKept]_vars

\* a saved report of two summaries from two subgraphs
C18_Witness ==
    /\ fleet.pc = "saved"
    /\ Len(fleet.rows) = 2
    /\ Len(subgraphs) = 2
    /\ \A t \in DOMAIN task : task[t].pc = "collected" /\ ProbesSettled(t)
====
